---- MODULE Spec2Model ----
(***************************************************************************)
(* A model of terra_gaia/translator/sigil.py: the SigilGenerator class.    *)
(*                                                                         *)
(* State: the generator instances that construction has returned, the      *)
(* filesystem generate writes to, and the arguments and outcome of the     *)
(* last call.  Operations: SigilGenerator(...) and generate(...).          *)
(*                                                                         *)
(* Conventions                                                             *)
(*  - A wound string is a sequence of one-character strings, so that       *)
(*    str.lower() is computed character by character.                      *)
(*  - A Python float is modelled by the exact rational it approximates, a  *)
(*    record [num, den] with den > 0.  For the 256 byte values and the     *)
(*    seven layer indices the code uses, the float and the rational agree  *)
(*    on every comparison made here (sign, order against 0, 360, 0.7 and   *)
(*    1.3, and equality between two byte values).                          *)
(*  - A path is the sequence of its components.                            *)
(*  - The filesystem is writable: mkdir and save do not fail.              *)
(***************************************************************************)
EXTENDS Integers, Sequences, FiniteSets, TLC

(***************************************************************************)
(* Bounds of the model.                                                    *)
(***************************************************************************)
\* the largest number of generator instances alive at once
MaxGens == 2

(***************************************************************************)
(* Strings.                                                                *)
(***************************************************************************)
UPPERCASE == <<"A","B","C","D","E","F","G","H","I","J","K","L","M",
               "N","O","P","Q","R","S","T","U","V","W","X","Y","Z">>

LOWERCASE == <<"a","b","c","d","e","f","g","h","i","j","k","l","m",
               "n","o","p","q","r","s","t","u","v","w","x","y","z">>

\* one character of str.lower()
LowerChar(c) ==
    IF \E k \in DOMAIN UPPERCASE : UPPERCASE[k] = c
    THEN LOWERCASE[CHOOSE k \in DOMAIN UPPERCASE : UPPERCASE[k] = c]
    ELSE c

\* str.lower()
Lower(s) == [k \in DOMAIN s |-> LowerChar(s[k])]

\* the seven category names, as the code spells them
root         == <<"r","o","o","t">>
sacral       == <<"s","a","c","r","a","l">>
solar_plexus == <<"s","o","l","a","r","_","p","l","e","x","u","s">>
heart        == <<"h","e","a","r","t">>
throat       == <<"t","h","r","o","a","t">>
third_eye    == <<"t","h","i","r","d","_","e","y","e">>
crown        == <<"c","r","o","w","n">>

\* frequency=None: the label is absent
NoFrequency == "<None>"

(***************************************************************************)
(* The class tables.                                                       *)
(***************************************************************************)
FREQUENCY_MAP ==
    ("396 Hz" :> root) @@ ("417 Hz" :> sacral) @@ ("528 Hz" :> solar_plexus) @@
    ("639 Hz" :> heart) @@ ("741 Hz" :> throat) @@ ("852 Hz" :> third_eye) @@
    ("963 Hz" :> crown)

COLOR_PALETTES ==
    (root :> [primary |-> <<196, 30, 58>>, secondary |-> <<139, 0, 0>>,
              accent |-> <<255, 69, 0>>, background |-> <<20, 10, 10>>]) @@
    (sacral :> [primary |-> <<255, 140, 0>>, secondary |-> <<255, 165, 0>>,
                accent |-> <<255, 215, 0>>, background |-> <<20, 15, 5>>]) @@
    (solar_plexus :> [primary |-> <<255, 215, 0>>, secondary |-> <<255, 255, 0>>,
                      accent |-> <<255, 250, 205>>, background |-> <<20, 20, 5>>]) @@
    (heart :> [primary |-> <<0, 128, 0>>, secondary |-> <<34, 139, 34>>,
               accent |-> <<144, 238, 144>>, background |-> <<5, 15, 5>>]) @@
    (throat :> [primary |-> <<0, 191, 255>>, secondary |-> <<30, 144, 255>>,
                accent |-> <<135, 206, 250>>, background |-> <<5, 10, 20>>]) @@
    (third_eye :> [primary |-> <<75, 0, 130>>, secondary |-> <<138, 43, 226>>,
                   accent |-> <<147, 112, 219>>, background |-> <<10, 5, 20>>]) @@
    (crown :> [primary |-> <<138, 43, 226>>, secondary |-> <<148, 0, 211>>,
               accent |-> <<218, 112, 214>>, background |-> <<15, 5, 20>>])

(***************************************************************************)
(* The state.                                                              *)
(***************************************************************************)
VARIABLES
    sha,           \* seed |-> the first five bytes of sha256(seed.encode())
    pil_validates, \* whether the installed Pillow rejects a box with x1 < x0
    gens,          \* the instances construction has returned, in order
    dirs,          \* the directories that exist
    files,         \* path |-> the image file saved there
    call,          \* the arguments of the last call
    result         \* the outcome of the last call

vars == <<sha, pil_validates, gens, dirs, files, call, result>>

(***************************************************************************)
(* hashlib.sha256: the first five digest bytes of the seeds the model      *)
(* constructs generators with.                                             *)
(***************************************************************************)
SHA256_PREFIX ==
    ("solver123"     :> <<148, 102, 9, 245, 137>>) @@
    ("test_mapping2" :> <<235, 139, 170, 163, 138>>)

\* hashlib.sha256(solver_id.encode()).digest(), its first five bytes
sha256(solver_id) == sha[solver_id]

(***************************************************************************)
(* Rationals.                                                              *)
(***************************************************************************)
\* the rational n / d, d > 0.  It is not reduced: every value of one quantity
\* is built by one formula and has one denominator
Rat(n, d) == [num |-> n, den |-> d]
RatLt(a, b) ==
    IF a.den = b.den THEN a.num < b.num ELSE a.num * b.den < b.num * a.den
RatLe(a, b) ==
    IF a.den = b.den THEN a.num <= b.num ELSE a.num * b.den <= b.num * a.den
RatEq(a, b) ==
    IF a.den = b.den THEN a.num = b.num ELSE a.num * b.den = b.num * a.den

(***************************************************************************)
(* _calculate_variations.                                                  *)
(***************************************************************************)
\* a variant of Variations that divides the first byte by 256
VariationsDivides256(hash_bytes) ==
    [ rotation_offset |-> Rat(hash_bytes[1] * 360, 256),
      layer_count     |-> 3 + (hash_bytes[2] % 5),
      ray_count       |-> 6 + (hash_bytes[3] % 7),
      line_weight     |-> 1 + (hash_bytes[4] % 5),
      scale_factor    |-> Rat(1785 + 6 * hash_bytes[5], 2550) ]

\* a variant of Variations whose layer count is taken modulo 6
VariationsLayerModulo6(hash_bytes) ==
    [ rotation_offset |-> Rat(hash_bytes[1] * 360, 255),
      layer_count     |-> 3 + (hash_bytes[2] % 6),
      ray_count       |-> 6 + (hash_bytes[3] % 7),
      line_weight     |-> 1 + (hash_bytes[4] % 5),
      scale_factor    |-> Rat(1785 + 6 * hash_bytes[5], 2550) ]

\* a variant of Variations whose ray count reads the layer count's byte
VariationsRayFromLayerByte(hash_bytes) ==
    [ rotation_offset |-> Rat(hash_bytes[1] * 360, 255),
      layer_count     |-> 3 + (hash_bytes[2] % 5),
      ray_count       |-> 6 + (hash_bytes[2] % 7),
      line_weight     |-> 1 + (hash_bytes[4] % 5),
      scale_factor    |-> Rat(1785 + 6 * hash_bytes[5], 2550) ]

\* the five parameters, from the digest bytes (Python indexes from 0)
Variations(hash_bytes) ==
    [ rotation_offset |-> Rat(hash_bytes[1] * 360, 255),
      layer_count     |-> 3 + (hash_bytes[2] % 5),
      ray_count       |-> 6 + (hash_bytes[3] % 7),
      line_weight     |-> 1 + (hash_bytes[4] % 5),
      \* 0.7 + (b / 255.0) * 0.6 = (1785 + 6 b) / 2550
      scale_factor    |-> Rat(1785 + 6 * hash_bytes[5], 2550) ]

\* a variant of CalculateVariations that hashes the wound with the seed
CalculateVariationsSaltedByWound(self) ==
    Variations([k \in 1..5 |-> (sha256(self.solver_id)[k] + Len(self.wound)) % 256])

CalculateVariations(self) == Variations(sha256(self.solver_id))

(***************************************************************************)
(* __init__.                                                               *)
(***************************************************************************)
\* the message of the ValueError construction raises
UnsupportedWoundType(wound) == <<"Unsupported wound type: ", wound>>

\* a variant of ResolveWound that tries the frequency label first
ResolveWoundFrequencyFirst(frequency, wound) ==
    LET lowered == Lower(wound) IN
    IF frequency \in DOMAIN FREQUENCY_MAP
    THEN [raised |-> FALSE, wound |-> FREQUENCY_MAP[frequency]]
    ELSE IF lowered \in DOMAIN COLOR_PALETTES
         THEN [raised |-> FALSE, wound |-> lowered]
         ELSE [raised |-> TRUE, error |-> UnsupportedWoundType(wound)]

\* a variant of ResolveWound without the frequency fallback
ResolveWoundNoFallback(frequency, wound) ==
    LET lowered == Lower(wound) IN
    IF lowered \notin DOMAIN COLOR_PALETTES
    THEN [raised |-> TRUE, error |-> UnsupportedWoundType(wound)]
    ELSE [raised |-> FALSE, wound |-> lowered]

\* a variant of ResolveWound whose error names self.wound, the lowered string
ResolveWoundNamesLowered(frequency, wound) ==
    LET lowered == Lower(wound) IN
    IF lowered \notin DOMAIN COLOR_PALETTES
    THEN IF frequency \in DOMAIN FREQUENCY_MAP
         THEN [raised |-> FALSE, wound |-> FREQUENCY_MAP[frequency]]
         ELSE [raised |-> TRUE, error |-> UnsupportedWoundType(lowered)]
    ELSE [raised |-> FALSE, wound |-> lowered]

\* lines 90-99: the wound the instance keeps, or the error
ResolveWound(frequency, wound) ==
    LET lowered == Lower(wound) IN
    IF lowered \notin DOMAIN COLOR_PALETTES
    THEN IF frequency \in DOMAIN FREQUENCY_MAP
         THEN [raised |-> FALSE, wound |-> FREQUENCY_MAP[frequency]]
         ELSE [raised |-> TRUE, error |-> UnsupportedWoundType(wound)]
    ELSE [raised |-> FALSE, wound |-> lowered]

\* a variant of NewInstance that takes the palette of the frequency label's
\* category whenever the label is in the table
NewInstancePaletteByFrequency(frequency, wound, solver_id) ==
    LET attrs == [frequency |-> frequency,
                  wound     |-> ResolveWound(frequency, wound).wound,
                  solver_id |-> solver_id]
    IN  [ frequency  |-> attrs.frequency,
          wound      |-> attrs.wound,
          solver_id  |-> attrs.solver_id,
          colors     |-> IF frequency \in DOMAIN FREQUENCY_MAP
                         THEN COLOR_PALETTES[FREQUENCY_MAP[frequency]]
                         ELSE COLOR_PALETTES[attrs.wound],
          variations |-> CalculateVariations(attrs) ]

\* the instance a successful construction returns
NewInstance(frequency, wound, solver_id) ==
    LET attrs == [frequency |-> frequency,
                  wound     |-> ResolveWound(frequency, wound).wound,
                  solver_id |-> solver_id]
    IN  [ frequency  |-> attrs.frequency,
          wound      |-> attrs.wound,
          solver_id  |-> attrs.solver_id,
          colors     |-> COLOR_PALETTES[attrs.wound],
          variations |-> CalculateVariations(attrs) ]

\* SigilGenerator(frequency, wound, solver_id)
Construct(frequency, wound, solver_id) ==
    /\ Len(gens) < MaxGens
    /\ call' = [op |-> "__init__", frequency |-> frequency, wound |-> wound,
                solver_id |-> solver_id]
    /\ IF ResolveWound(frequency, wound).raised
       THEN /\ result' = [status |-> "ValueError",
                          value  |-> ResolveWound(frequency, wound).error]
            /\ UNCHANGED gens
       ELSE /\ gens' = Append(gens, NewInstance(frequency, wound, solver_id))
            /\ result' = [status |-> "returned", value |-> <<"instance", Len(gens) + 1>>]
    /\ UNCHANGED <<sha, pil_validates, dirs, files>>

(***************************************************************************)
(* The drawing routines.  Each returns the ImageDraw calls it makes, in    *)
(* order; element k of a sequence is the call of loop index i = k - 1.     *)
(***************************************************************************)
RatAdd(a, b) == Rat(a.num * b.den + b.num * a.den, a.den * b.den)
RatSub(a, b) == Rat(a.num * b.den - b.num * a.den, a.den * b.den)
RatMul(a, b) == Rat(a.num * b.num, a.den * b.den)
RatInt(n) == Rat(n, 1)

\* a variant of LayerColor with the colours of the later layers exchanged
LayerColorAccentOnEven(self, i) ==
    IF i = 0 THEN self.colors.primary
    ELSE IF i % 2 = 0 THEN self.colors.accent
    ELSE self.colors.secondary

\* "Choose color based on layer" of the three category routines
LayerColor(self, i) ==
    IF i = 0 THEN self.colors.primary
    ELSE IF i % 2 = 0 THEN self.colors.secondary
    ELSE self.colors.accent

\* the box [cx - radius, cy - radius, cx + radius, cy + radius]
CircleBox(center, radius) ==
    << RatSub(RatInt(center[1]), radius), RatSub(RatInt(center[2]), radius),
       RatAdd(RatInt(center[1]), radius), RatAdd(RatInt(center[2]), radius) >>

\* scale = size * self.variations["scale_factor"]
Scale(self, size) == RatMul(RatInt(size), self.variations.scale_factor)

\* one "for i in range(count)" loop of lines or arcs from the centre: stroke i
\* is at angle first + step * i; the strokes of even and of odd index i have
\* the attributes even and odd
Strokes(shape, count, first, even, odd, width) ==
    [ shape |-> shape,
      count |-> count,
      first |-> first,
      step  |-> Rat(360, count),
      even  |-> even,
      odd   |-> odd,
      width |-> width ]

\* _draw_root_geometry
DrawRootGeometry(self, center, size) ==
    LET scale    == Scale(self, size)
        rotation == self.variations.rotation_offset
        square(i) ==
            [ shape   |-> "polygon",
              sides   |-> 4,
              size    |-> RatMul(scale, Rat(10 - i * 2, 10)),
              angle   |-> RatAdd(rotation, RatInt(i * 15)),
              color   |-> LayerColor(self, i),
              width   |-> self.variations.line_weight ]
        ray == [ length |-> RatMul(scale, Rat(13, 10)),
                 color  |-> self.colors.accent ]
    IN  [ layers |-> [k \in 1..self.variations.layer_count |-> square(k - 1)],
          rays   |-> Strokes("line", self.variations.ray_count, rotation,
                             ray, ray, self.variations.line_weight) ]

\* _draw_sacral_geometry
DrawSacralGeometry(self, center, size) ==
    LET scale    == Scale(self, size)
        rotation == self.variations.rotation_offset
        circle(i) ==
            LET radius == RatMul(scale, Rat(100 - i * 18, 100)) IN
            [ shape   |-> "ellipse",
              radius  |-> radius,
              bbox    |-> CircleBox(center, radius),
              color   |-> LayerColor(self, i),
              width   |-> self.variations.line_weight ]
        \* an arc of 180 degrees, from the stroke's angle, of a circle of
        \* radius scale * 0.3 centred scale * 0.8 from the centre
        crescent == [ offset |-> RatMul(scale, Rat(8, 10)),
                      radius |-> RatMul(scale, Rat(3, 10)),
                      sweep  |-> 180,
                      color  |-> self.colors.accent ]
    IN  [ layers |-> [k \in 1..self.variations.layer_count |-> circle(k - 1)],
          rays   |-> Strokes("arc", self.variations.ray_count, rotation,
                             crescent, crescent, self.variations.line_weight) ]

\* _draw_solar_plexus_geometry
DrawSolarPlexusGeometry(self, center, size) ==
    LET scale    == Scale(self, size)
        rotation == self.variations.rotation_offset
        triangle(i) ==
            [ shape   |-> "polygon",
              sides   |-> 3,
              size    |-> RatMul(scale, Rat(10 - i * 2, 10)),
              angle   |-> RatAdd(rotation, RatInt(i * 20)),
              color   |-> LayerColor(self, i),
              width   |-> self.variations.line_weight ]
        long  == [ length |-> RatMul(scale, Rat(14, 10)),
                   color  |-> self.colors.primary ]
        short == [ length |-> RatMul(scale, Rat(11, 10)),
                   color  |-> self.colors.accent ]
    IN  [ layers |-> [k \in 1..self.variations.layer_count |-> triangle(k - 1)],
          rays   |-> Strokes("line", self.variations.ray_count * 2, rotation,
                             long, short, self.variations.line_weight) ]

\* no second loop: the mandala has no rays
NoStrokes == [shape |-> "none", count |-> 0]

\* the else branch of generate: the mandala of the other wound types
DrawMandala(self, center, geometry_size) ==
    LET circle(i) ==
            LET radius == RatMul(RatInt(geometry_size), Rat(10 - i * 2, 10)) IN
            [ shape   |-> "ellipse",
              radius  |-> radius,
              bbox    |-> CircleBox(center, radius),
              color   |-> IF i % 2 = 0 THEN self.colors.primary
                                       ELSE self.colors.secondary,
              width   |-> self.variations.line_weight ]
    IN  [ layers |-> [k \in 1..self.variations.layer_count |-> circle(k - 1)],
          rays   |-> NoStrokes ]

\* a variant of Render whose figure size is half the side, not a third
RenderHalfSide(self, image_size) ==
    LET center        == <<image_size \div 2, image_size \div 2>>
        geometry_size == image_size \div 2
    IN  [ size       |-> <<image_size, image_size>>,
          mode       |-> "RGB",
          background |-> self.colors.background,
          center     |-> center,
          drawn      |-> IF self.wound = root
                         THEN DrawRootGeometry(self, center, geometry_size)
                         ELSE IF self.wound = sacral
                         THEN DrawSacralGeometry(self, center, geometry_size)
                         ELSE IF self.wound = solar_plexus
                         THEN DrawSolarPlexusGeometry(self, center, geometry_size)
                         ELSE DrawMandala(self, center, geometry_size) ]

\* a variant of Render whose third branch tests for "solar plexus"
RenderSolarPlexusSpaced(self, image_size) ==
    LET center        == <<image_size \div 2, image_size \div 2>>
        geometry_size == image_size \div 3
    IN  [ size       |-> <<image_size, image_size>>,
          mode       |-> "RGB",
          background |-> self.colors.background,
          center     |-> center,
          drawn      |-> IF self.wound = root
                         THEN DrawRootGeometry(self, center, geometry_size)
                         ELSE IF self.wound = sacral
                         THEN DrawSacralGeometry(self, center, geometry_size)
                         ELSE IF self.wound = <<"s","o","l","a","r"," ","p","l","e","x","u","s">>
                         THEN DrawSolarPlexusGeometry(self, center, geometry_size)
                         ELSE DrawMandala(self, center, geometry_size) ]

\* generate, lines 308-332: the canvas and the ImageDraw calls made on it
Render(self, image_size) ==
    LET center        == <<image_size \div 2, image_size \div 2>>
        geometry_size == image_size \div 3
    IN  [ size       |-> <<image_size, image_size>>,
          mode       |-> "RGB",
          background |-> self.colors.background,
          center     |-> center,
          drawn      |-> IF self.wound = root
                         THEN DrawRootGeometry(self, center, geometry_size)
                         ELSE IF self.wound = sacral
                         THEN DrawSacralGeometry(self, center, geometry_size)
                         ELSE IF self.wound = solar_plexus
                         THEN DrawSolarPlexusGeometry(self, center, geometry_size)
                         ELSE DrawMandala(self, center, geometry_size) ]

\* ImageDraw.ellipse is given a box with x1 < x0 or y1 < y0
BadBox(cmd) ==
    /\ cmd.shape = "ellipse"
    /\ \/ RatLt(cmd.bbox[3], cmd.bbox[1])
       \/ RatLt(cmd.bbox[4], cmd.bbox[2])

(***************************************************************************)
(* generate.                                                               *)
(***************************************************************************)
\* the image_size parameter's default
DEFAULT_IMAGE_SIZE == 512

\* Path(output_path).parent and its parents: what mkdir(parents=True) makes
Parents(output_path) ==
    {SubSeq(output_path, 1, n) : n \in 1..(Len(output_path) - 1)}

\* a variant of GenerateBody that leaves the last layer's angle step in
\* self.variations["rotation_offset"]
GenerateBodyKeepsRotation(g, output_path, image_size) ==
    LET self   == gens[g]
        raster == Render(self, image_size)
    IN  /\ dirs' = dirs \cup Parents(output_path)
        /\ gens' = [gens EXCEPT ![g].variations.rotation_offset =
                                    RatAdd(@, RatInt(15))]
        /\ IF pil_validates /\ \E k \in DOMAIN raster.drawn.layers :
                                  BadBox(raster.drawn.layers[k])
           THEN /\ result' = [status |-> "ValueError",
                              value  |-> <<"x1 must be greater than or equal to x0">>]
                /\ UNCHANGED files
           ELSE /\ files' = (output_path :> [image |-> raster, by |-> g])
                            @@ files
                /\ result' = [status |-> "returned", value |-> output_path]
        /\ UNCHANGED <<sha, pil_validates>>

\* the body of generate, for instance number g
GenerateBody(g, output_path, image_size) ==
    LET self   == gens[g]
        raster == Render(self, image_size)
    IN  /\ dirs' = dirs \cup Parents(output_path)
        /\ IF pil_validates /\ \E k \in DOMAIN raster.drawn.layers : BadBox(raster.drawn.layers[k])
           THEN \* draw.ellipse raises before image.save is reached
                /\ result' = [status |-> "ValueError",
                              value  |-> <<"x1 must be greater than or equal to x0">>]
                /\ UNCHANGED files
           ELSE /\ files' = (output_path :> [image |-> raster, by |-> g])
                            @@ files
                /\ result' = [status |-> "returned", value |-> output_path]
        /\ UNCHANGED <<sha, pil_validates, gens>>

\* sigil.generate(output_path, image_size)
Generate(g, output_path, image_size) ==
    /\ g \in DOMAIN gens
    /\ call' = [op |-> "generate", self |-> g, output_path |-> output_path,
                image_size |-> <<image_size>>]
    /\ GenerateBody(g, output_path, image_size)

\* sigil.generate(output_path)
GenerateDefault(g, output_path) ==
    /\ g \in DOMAIN gens
    /\ call' = [op |-> "generate", self |-> g, output_path |-> output_path,
                image_size |-> <<>>]
    /\ GenerateBody(g, output_path, DEFAULT_IMAGE_SIZE)

(***************************************************************************)
(* The life of a process: constructions and generate calls, in any order.  *)
(***************************************************************************)
Frequencies == {NoFrequency, "417 Hz"}

Wounds == {<<"H","e","a","r","t">>, <<"A","n","y","t","h","i","n","g">>}

Paths == {<<"sigil.png">>, <<"test_output", "nested", "sigil.png">>}

ImageSizes == {256}

NoCall == [op |-> "none"]

InitCommon ==
    /\ pil_validates \in BOOLEAN
    /\ gens = <<>>
    /\ dirs = {}
    /\ files = <<>>
    /\ call = NoCall
    /\ result = [status |-> "none", value |-> <<>>]

Init ==
    /\ sha = SHA256_PREFIX
    /\ InitCommon

Next ==
    \/ \E frequency \in Frequencies, wound \in Wounds, solver_id \in DOMAIN sha :
          Construct(frequency, wound, solver_id)
    \/ \E g \in 1..MaxGens, output_path \in Paths, image_size \in ImageSizes :
          Generate(g, output_path, image_size)
    \/ \E g \in 1..MaxGens, output_path \in Paths :
          GenerateDefault(g, output_path)

Spec == Init /\ [][Next]_vars

(***************************************************************************)
(* Resolution as a function of its inputs: one construction, from every    *)
(* frequency label and wound string below.                                 *)
(***************************************************************************)
AllFrequencies == DOMAIN FREQUENCY_MAP \cup {NoFrequency, "999 Hz"}

KnownWounds == DOMAIN COLOR_PALETTES

AllWounds ==
    KnownWounds
    \cup { <<"R","O","O","T">>, <<"S","a","c","r","a","l">>,
           <<"S","o","l","a","r","_","P","l","e","x","u","s">>,
           <<"T","h","i","r","d","_","E","y","e">>, <<"c","r","o","w","N">> }
    \cup { <<"a","n","y","t","h","i","n","g">>,
           <<"I","n","v","a","l","i","d","_","W","o","u","n","d">>,
           <<"r","o","o","t"," ">>, <<>> }

NextResolve ==
    \E frequency \in AllFrequencies, wound \in AllWounds, solver_id \in DOMAIN sha :
        /\ gens = <<>>
        /\ Construct(frequency, wound, solver_id)

SpecResolve == Init /\ [][NextResolve]_vars

(***************************************************************************)
(* Derivation as a function of the digest: the digests of two seeds are    *)
(* drawn from the byte values, and generators are constructed from them.   *)
(***************************************************************************)
Bytes == 0..255

\* the digests in which at most one byte is not 0
OneByteDigests ==
    { [k \in 1..5 |-> IF k = at THEN b ELSE 0] : at \in 1..5, b \in Bytes }

\* digests a second seed is given
OtherDigests ==
    { <<0, 0, 0, 0, 0>>, <<255, 254, 253, 252, 255>>, <<0, 5, 7, 5, 0>> }

InitDerive ==
    /\ sha \in { ("seed_a" :> d1) @@ ("seed_b" :> d2) :
                    d1 \in OneByteDigests, d2 \in OtherDigests }
    /\ InitCommon

NextDerive ==
    \E solver_id \in DOMAIN sha : Construct("396 Hz", root, solver_id)

SpecDerive == InitDerive /\ [][NextDerive]_vars

(***************************************************************************)
(* Rendering as a function of the category and the parameters: one         *)
(* construction, of any category by either route, from a digest that gives *)
(* any layer count, ray count and line weight with the least or the        *)
(* greatest rotation and scale, and then generate calls on it.             *)
(***************************************************************************)
RenderDigests ==
    { <<b0, b1, b2, b3, b4>> :
        b0 \in {0, 255}, b1 \in 0..4, b2 \in 0..6, b3 \in 0..4, b4 \in {0, 255} }

\* (frequency, wound): every category by name, and by its label alone
RenderInputs ==
    { <<NoFrequency, wound>> : wound \in KnownWounds }
    \cup { <<frequency, <<"a","n","y","t","h","i","n","g">> >> :
              frequency \in DOMAIN FREQUENCY_MAP }

InitRender ==
    /\ sha \in { ("seed_a" :> d) : d \in RenderDigests }
    /\ InitCommon

NextRender ==
    \/ \E input \in RenderInputs, solver_id \in DOMAIN sha :
          /\ gens = <<>>
          /\ Construct(input[1], input[2], solver_id)
    \/ \E image_size \in ImageSizes : Generate(1, <<"sigil.png">>, image_size)
    \/ GenerateDefault(1, <<"sigil.png">>)

SpecRender == InitRender /\ [][NextRender]_vars

(***************************************************************************)
(* The properties.                                                         *)
(***************************************************************************)
\* the instance the last call constructed
Constructed == gens[Len(gens)]

\* C1: Resolution precedence.  A construction whose wound string is, once
\* lower-cased, one of the seven known categories returns an instance whose
\* wound is that lower-cased string, whatever the frequency label is (absent,
\* unmapped, or mapped to another category).
C1_ResolutionPrecedence ==
    (call.op = "__init__" /\ Lower(call.wound) \in KnownWounds)
        => /\ result.status = "returned"
           /\ gens # <<>>
           /\ Constructed.wound = Lower(call.wound)
           /\ Constructed.wound \in {root, sacral, solar_plexus, heart, throat,
                                     third_eye, crown}

\* C1 happens: "ROOT" with the label of sacral resolves to root
C1_Witness ==
    /\ call.op = "__init__"
    /\ call.wound = <<"R","O","O","T">>
    /\ call.frequency = "417 Hz"
    /\ result.status = "returned"
    /\ gens # <<>>
    /\ Constructed.wound = root

\* C2: Frequency fallback.  A construction whose wound string is not a known
\* category once lower-cased, and whose frequency label is a key of the
\* frequency table, succeeds, and the instance's wound is the table's value
\* for the label; "417 Hz" gives sacral.
C2_FrequencyFallback ==
    (/\ call.op = "__init__"
     /\ Lower(call.wound) \notin KnownWounds
     /\ call.frequency \in DOMAIN FREQUENCY_MAP)
        => /\ result.status = "returned"
           /\ gens # <<>>
           /\ Constructed.wound = FREQUENCY_MAP[call.frequency]
           /\ (call.frequency = "417 Hz" => Constructed.wound = sacral)

\* C2 happens: wound "anything" with "417 Hz" gives sacral
C2_Witness ==
    /\ call.op = "__init__"
    /\ call.wound = <<"a","n","y","t","h","i","n","g">>
    /\ call.frequency = "417 Hz"
    /\ result.status = "returned"
    /\ gens # <<>>
    /\ Constructed.wound = sacral

\* C3: Invalid input rejection.  Every construction step whose wound string is
\* not a known category and whose frequency label is absent or not in the
\* frequency table ends in the ValueError "Unsupported wound type" naming the
\* wound string as the caller gave it, and leaves the instances, the
\* directories and the files as they were: no instance, no parameters, no
\* image.
C3_InvalidInputRejected ==
    [][ (/\ call'.op = "__init__"
         /\ Lower(call'.wound) \notin KnownWounds
         /\ call'.frequency \notin DOMAIN FREQUENCY_MAP)
            => /\ result'.status = "ValueError"
               /\ result'.value = <<"Unsupported wound type: ", call'.wound>>
               /\ gens' = gens
               /\ dirs' = dirs
               /\ files' = files ]_vars

\* C3 happens: "Invalid_Wound" with the unmapped label "999 Hz" is rejected
C3_Witness ==
    /\ call.op = "__init__"
    /\ call.wound = <<"I","n","v","a","l","i","d","_","W","o","u","n","d">>
    /\ call.frequency = "999 Hz"
    /\ result.status = "ValueError"
    /\ gens = <<>>
    /\ files = <<>>

\* the digest bytes b0..b4 of the seed of instance g
DigestOf(g) == sha[gens[g].solver_id]

\* C4, as stated: for every value of the first digest byte the rotation offset
\* is at least 0 and strictly less than 360.
C4_RotationBelow360 ==
    \A g \in DOMAIN gens :
        /\ RatLe(Rat(0, 1), gens[g].variations.rotation_offset)
        /\ RatLt(gens[g].variations.rotation_offset, Rat(360, 1))

\* C4, amended: for every value 0..255 of the first digest byte b0 the
\* rotation offset (b0 / 255) * 360 is at least 0 and at most 360; it is
\* strictly less than 360 for every b0 below 255 and exactly 360 for b0 = 255.
C4_RotationAtMost360 ==
    \A g \in DOMAIN gens :
        LET rotation == gens[g].variations.rotation_offset IN
        /\ RatLe(Rat(0, 1), rotation)
        /\ RatLe(rotation, Rat(360, 1))
        /\ DigestOf(g)[1] < 255 => RatLt(rotation, Rat(360, 1))
        /\ DigestOf(g)[1] = 255 => RatEq(rotation, Rat(360, 1))

\* C4 happens: a generator whose seed's digest starts with the byte 255
C4_Witness ==
    \E g \in DOMAIN gens :
        /\ DigestOf(g)[1] = 255
        /\ RatEq(gens[g].variations.rotation_offset, Rat(360, 1))

\* C5: for every combination of the digest bytes b1..b4, layer_count is an
\* integer in 3..7, ray_count in 6..12, line_weight in 1..5 and scale_factor
\* lies in [0.7, 1.3]; each of them is the documented function of its byte,
\* and every value of each integer range is the image of some byte.
C5_ParameterRanges ==
    /\ \A g \in DOMAIN gens :
        LET v == gens[g].variations
            b == DigestOf(g)
        IN  /\ v.layer_count \in 3..7
            /\ v.ray_count \in 6..12
            /\ v.line_weight \in 1..5
            /\ RatLe(Rat(7, 10), v.scale_factor)
            /\ RatLe(v.scale_factor, Rat(13, 10))
            /\ v.layer_count = 3 + (b[2] % 5)
            /\ v.ray_count = 6 + (b[3] % 7)
            /\ v.line_weight = 1 + (b[4] % 5)
            /\ RatEq(v.scale_factor, Rat(7 * 255 + 6 * b[5], 10 * 255))
    /\ \A n \in 3..7 : \E b \in Bytes : Variations(<<0, b, 0, 0, 0>>).layer_count = n
    /\ \A n \in 6..12 : \E b \in Bytes : Variations(<<0, 0, b, 0, 0>>).ray_count = n
    /\ \A n \in 1..5 : \E b \in Bytes : Variations(<<0, 0, 0, b, 0>>).line_weight = n

\* C5 happens: generators at the ends of the ranges
C5_Witness ==
    /\ \E g \in DOMAIN gens :
        /\ gens[g].variations.layer_count = 7
        /\ RatEq(gens[g].variations.scale_factor, Rat(13, 10))
    /\ \E g \in DOMAIN gens :
        /\ gens[g].variations.ray_count = 12
        /\ RatEq(gens[g].variations.scale_factor, Rat(7, 10))

\* the part of a digest the parameters keep
DigestKey(b) == <<b[1], b[2] % 5, b[3] % 7, b[4] % 5, b[5]>>

\* C9, as stated: two generators whose seeds' digests differ in at least one
\* of the first five bytes have parameter sets that differ in some field.
C9_DistinctDigestsDistinctParameters ==
    \A g, h \in DOMAIN gens :
        DigestOf(g) # DigestOf(h) => gens[g].variations # gens[h].variations

\* C9, amended: two generators whose seeds' digests differ in b0, in b1 mod 5,
\* in b2 mod 7, in b3 mod 5 or in b4 have parameter sets that differ in at
\* least one of the five fields.
C9_DistinctKeysDistinctParameters ==
    \A g, h \in DOMAIN gens :
        DigestKey(DigestOf(g)) # DigestKey(DigestOf(h))
            => \/ ~RatEq(gens[g].variations.rotation_offset,
                         gens[h].variations.rotation_offset)
               \/ gens[g].variations.layer_count # gens[h].variations.layer_count
               \/ gens[g].variations.ray_count # gens[h].variations.ray_count
               \/ gens[g].variations.line_weight # gens[h].variations.line_weight
               \/ ~RatEq(gens[g].variations.scale_factor,
                         gens[h].variations.scale_factor)

\* C9 happens: two generators whose digests differ in the ray count's byte only
C9_Witness ==
    \E g, h \in DOMAIN gens :
        /\ DigestOf(g) = <<0, 0, 3, 0, 0>>
        /\ DigestOf(h) = <<0, 0, 0, 0, 0>>
        /\ gens[g].variations.ray_count # gens[h].variations.ray_count

\* C6: Determinism of derivation.  Any two instances built with the same seed
\* have the same five parameters, whatever their wound strings and frequency
\* labels are and whatever was constructed or rendered besides them.
C6_SameSeedSameParameters ==
    \A g, h \in DOMAIN gens :
        gens[g].solver_id = gens[h].solver_id
            => /\ gens[g].variations = gens[h].variations
               /\ gens[g].variations = Variations(sha[gens[g].solver_id])

\* C6 happens: one seed, two categories, two labels, and a render in between
C6_Witness ==
    \E g, h \in DOMAIN gens :
        /\ g < h
        /\ gens[g].solver_id = gens[h].solver_id
        /\ gens[g].wound # gens[h].wound
        /\ gens[g].frequency # gens[h].frequency
        /\ \E p \in DOMAIN files : files[p].by = g

\* the attributes of the instances that exist do not change
InstancesFrozen ==
    \A g \in DOMAIN gens : g \in DOMAIN gens' /\ gens'[g] = gens[g]

\* the files one instance wrote at one image size hold one raster
FilesAgree ==
    \A p, q \in DOMAIN files :
        (files[p].by = files[q].by /\ files[p].image.size = files[q].image.size)
            => files[p].image = files[q].image

\* C7: Immutability after construction.  No step, and so no sequence of
\* generate calls with any paths and sizes, changes the wound, palette, seed,
\* frequency label or parameters of an instance; and the rasters an instance
\* writes at one image size are the same, whatever calls came between.
C7_ImmutableAfterConstruction ==
    [][ /\ InstancesFrozen
        /\ call'.op = "generate" => (gens' = gens /\ FilesAgree') ]_vars

\* C7 happens: one instance wrote two files at one size with other calls between
C7_Witness ==
    \E p, q \in DOMAIN files :
        /\ p # q
        /\ files[p].by = files[q].by
        /\ files[p].image.size = files[q].image.size
        /\ files[p].image = files[q].image
        /\ Len(gens) = 2
        /\ call.op = "generate"

\* the size of a polygon layer or the radius of a circle layer
LayerExtent(cmd) == IF cmd.shape = "ellipse" THEN cmd.radius ELSE cmd.size

\* C8, as stated: a generate call at the default image size, on any instance,
\* ends by writing the image, and every layer it drew has a size or radius
\* that is not negative, so that every circle's box has x1 >= x0 and y1 >= y0.
C8_RenderingCannotFail ==
    (call.op = "generate" /\ call.image_size = <<>>)
        => /\ result.status = "returned"
           /\ call.output_path \in DOMAIN files
           /\ \A k \in DOMAIN files[call.output_path].image.drawn.layers :
                LET cmd == files[call.output_path].image.drawn.layers[k] IN
                /\ RatLe(Rat(0, 1), LayerExtent(cmd))
                /\ ~BadBox(cmd)

\* the image size of the last generate call
CalledSize ==
    IF call.image_size = <<>> THEN 512 ELSE call.image_size[1]

\* C10, as stated: every generate call on a constructed instance creates the
\* parent directories of the path, writes there an RGB raster of image_size by
\* image_size pixels (512 when image_size is omitted) and returns the path.
C10_OutputShape ==
    call.op = "generate"
        => /\ Parents(call.output_path) \subseteq dirs
           /\ result.status = "returned"
           /\ result.value = call.output_path
           /\ call.output_path \in DOMAIN files
           /\ files[call.output_path].image.size = <<CalledSize, CalledSize>>
           /\ files[call.output_path].image.mode = "RGB"

(***************************************************************************)
(* The canvas of a generate call.                                          *)
(***************************************************************************)
\* the instance the last generate call was made on
Called == gens[call.self]

\* the canvas the last generate call drew on, saved or not
Canvas == Render(Called, CalledSize)

\* the last generate call saved what it drew
SavedIsCanvas ==
    result.status = "returned"
        => /\ call.output_path \in DOMAIN files
           /\ files[call.output_path].image = Canvas

AbsInt(n) == IF n < 0 THEN 0 - n ELSE n

\* |r| rounded up to a whole number of pixels
CeilAbs(r) == (AbsInt(r.num) + r.den - 1) \div r.den

\* no point a layer paints is farther than this from the centre: its corners
\* or its circle, and the stroke's width
LayerReach(cmd) == CeilAbs(LayerExtent(cmd)) + cmd.width

\* no point the second loop paints is farther than this from the centre
StrokesReach(rays) ==
    IF rays.shape = "none" THEN 0
    ELSE IF rays.shape = "arc"
    THEN CeilAbs(rays.even.offset) + CeilAbs(rays.even.radius) + rays.width
    ELSE (IF CeilAbs(rays.even.length) > CeilAbs(rays.odd.length)
          THEN CeilAbs(rays.even.length) ELSE CeilAbs(rays.odd.length))
         + rays.width

\* a figure of this reach around (256, 256) paints no point of the pixel
\* (0, 0), whose points are at least 255 * sqrt(2) from the centre
ClearOfCorner(reach) == reach * reach < 2 * 255 * 255

\* C11: Background corner pixel.  In every generate call at the side 512, for
\* every category and parameter set, the canvas is filled with the background
\* colour of the instance's category ((20,10,10) for root) and no layer and
\* no ray, arc or line reaches the pixel (0, 0); an image that is saved is
\* that canvas, so its pixel (0, 0) has the background colour.
C11_CornerIsBackground ==
    (call.op = "generate" /\ CalledSize = 512)
        => /\ Canvas.size = <<512, 512>>
           /\ Canvas.center = <<256, 256>>
           /\ Canvas.background = COLOR_PALETTES[Called.wound].background
           /\ Called.wound = root => Canvas.background = <<20, 10, 10>>
           /\ \A k \in DOMAIN Canvas.drawn.layers :
                ClearOfCorner(LayerReach(Canvas.drawn.layers[k]))
           /\ ClearOfCorner(StrokesReach(Canvas.drawn.rays))
           /\ SavedIsCanvas

\* C11 happens: the longest rays there are, of solar_plexus at scale 1.3 and
\* line weight 5, are drawn and saved
C11_Witness ==
    /\ call.op = "generate"
    /\ call.image_size = <<>>
    /\ result.status = "returned"
    /\ Called.wound = solar_plexus
    /\ Called.variations.line_weight = 5
    /\ RatEq(Called.variations.scale_factor, Rat(13, 10))
    /\ files[call.output_path].image.background = <<20, 20, 5>>
    /\ StrokesReach(files[call.output_path].image.drawn.rays) > 300

\* every layer of the drawing is a polygon of this many sides
AllPolygons(drawn, sides) ==
    \A k \in DOMAIN drawn.layers :
        /\ drawn.layers[k].shape = "polygon"
        /\ drawn.layers[k].sides = sides

\* every layer of the drawing is a circle
AllCircles(drawn) ==
    \A k \in DOMAIN drawn.layers : drawn.layers[k].shape = "ellipse"

\* the drawing is layer_count circles of the radii base_size * (1 - i * 0.2)
\* and nothing else
IsMandala(drawn, self, base_size) ==
    /\ AllCircles(drawn)
    /\ Len(drawn.layers) = self.variations.layer_count
    /\ \A k \in DOMAIN drawn.layers :
          RatEq(drawn.layers[k].radius,
                RatMul(base_size, Rat(10 - (k - 1) * 2, 10)))
    /\ drawn.rays.shape = "none"
    /\ drawn.rays.count = 0

\* the drawing is the one the category of self has, the mandala being of the
\* given base size
ShapeGrammar(drawn, self, base_size) ==
    IF self.wound = root
    THEN /\ AllPolygons(drawn, 4)
         /\ drawn.rays.shape = "line"
         /\ drawn.rays.count = self.variations.ray_count
    ELSE IF self.wound = sacral
    THEN /\ AllCircles(drawn)
         /\ drawn.rays.shape = "arc"
         /\ drawn.rays.count = self.variations.ray_count
    ELSE IF self.wound = solar_plexus
    THEN /\ AllPolygons(drawn, 3)
         /\ drawn.rays.shape = "line"
         /\ drawn.rays.count = 2 * self.variations.ray_count
    ELSE /\ self.wound \in {heart, throat, third_eye, crown}
         /\ IsMandala(drawn, self, base_size)

CycleColor(self, i) ==
    IF self.wound \in {root, sacral, solar_plexus}
    THEN CASE i = 0                -> self.colors.primary
           [] i > 0 /\ i % 2 = 0   -> self.colors.secondary
           [] i % 2 = 1            -> self.colors.accent
    ELSE CASE i % 2 = 0            -> self.colors.primary
           [] i % 2 = 1            -> self.colors.secondary

\* C13: Layer colour cycling.  In every generate call the layers are those of
\* the indices 0..layer_count-1; in the root, sacral and solar_plexus grammars
\* layer i is outlined primary when i = 0, secondary when i is even and
\* greater than 0, accent when i is odd, and in the generic fallback primary
\* for even i and secondary for odd i; every layer and every ray, arc or line
\* has the width line_weight.
C13_LayerColourCycling ==
    call.op = "generate"
        => /\ DOMAIN Canvas.drawn.layers = 1..Called.variations.layer_count
           /\ \A k \in DOMAIN Canvas.drawn.layers :
                /\ Canvas.drawn.layers[k].color = CycleColor(Called, k - 1)
                /\ Canvas.drawn.layers[k].width = Called.variations.line_weight
           /\ Canvas.drawn.rays.shape # "none"
                => Canvas.drawn.rays.width = Called.variations.line_weight
           /\ SavedIsCanvas

\* C13 happens: seven root squares are saved, outlined primary, accent,
\* secondary, accent, ..., with rays, all of the width 3
C13_Witness ==
    /\ call.op = "generate"
    /\ result.status = "returned"
    /\ Called.wound = root
    /\ Called.variations.layer_count = 7
    /\ Called.variations.line_weight = 3
    /\ LET drawn == files[call.output_path].image.drawn IN
         /\ drawn.layers[1].color = <<196, 30, 58>>
         /\ drawn.layers[2].color = <<255, 69, 0>>
         /\ drawn.layers[3].color = <<139, 0, 0>>
         /\ drawn.layers[7].color = <<139, 0, 0>>
         /\ drawn.layers[7].width = 3
         /\ drawn.rays.width = 3

\* an RGB colour
IsColor(c) == /\ DOMAIN c = 1..3
              /\ \A k \in 1..3 : c[k] \in 0..255

\* C14: Resolved-state invariant.  Every instance there is, constructed by
\* the wound name or by the frequency label, has for its wound one of the
\* seven keys of the palette table and for its colors exactly the table's
\* entry for that wound, with the four colours primary, secondary, accent and
\* background; and every value of the frequency table is a key of the palette
\* table.
C14_ResolvedState ==
    /\ \A g \in DOMAIN gens :
          /\ gens[g].wound \in {root, sacral, solar_plexus, heart, throat,
                                third_eye, crown}
          /\ gens[g].wound \in DOMAIN COLOR_PALETTES
          /\ gens[g].colors = COLOR_PALETTES[gens[g].wound]
          /\ DOMAIN gens[g].colors
                = {"primary", "secondary", "accent", "background"}
          /\ \A name \in DOMAIN gens[g].colors : IsColor(gens[g].colors[name])
    /\ Cardinality(DOMAIN COLOR_PALETTES) = 7
    /\ \A frequency \in DOMAIN FREQUENCY_MAP :
          FREQUENCY_MAP[frequency] \in DOMAIN COLOR_PALETTES

\* C14 happens: an instance resolved by the label 963 Hz, its wound string
\* being no category, holds the palette of crown
C14_Witness ==
    /\ call.op = "__init__"
    /\ Lower(call.wound) \notin KnownWounds
    /\ call.frequency = "963 Hz"
    /\ result.status = "returned"
    /\ gens # <<>>
    /\ Constructed.wound = crown
    /\ Constructed.colors = COLOR_PALETTES[crown]
    /\ Constructed.colors.primary = <<138, 43, 226>>
====
